---- MODULE Spec2Model ----
(***************************************************************************)
(* The two node-dump formatters of src/backend/nodes/print.c:              *)
(*   format_node_dump        - break a dump at whitespace, 78 columns      *)
(*   pretty_format_node_dump - indent a dump by its { } ( ) : markers      *)
(* Strings are sequences of one-character strings.  C indices (i, j, k)    *)
(* are kept 0-based; dump[i] of the C code is At(i) here.                  *)
(***************************************************************************)
EXTENDS Integers, Sequences, FiniteSets, TLC

VARIABLES pretty, dump, pc, i, j, k, line, str, indentLev, indentDist,
          src, origin, overrun

vars == <<pretty, dump, pc, i, j, k, line, str, indentLev, indentDist,
          src, origin, overrun>>

(* ---------------------------------------------------------------------- *)
(* Program constants                                                       *)
(* ---------------------------------------------------------------------- *)
LINELEN == 78
INDENTSTOP == 3
MAXINDENT == 60

\* the string terminator '\0'
NUL == ""
\* content of a cell of line[] that was never written
JUNK == "?"

(* ---------------------------------------------------------------------- *)
(* Bounds of the checked input families                                    *)
(* ---------------------------------------------------------------------- *)
\* format_node_dump: number of (spaces, token) segments of an input
MaxSeg == 2
\* pretty_format_node_dump: length of a free-form input
MaxFree == 4
\* pretty_format_node_dump: length of the text that follows a long padding
MaxTail == 2

(* ---------------------------------------------------------------------- *)
(* Helpers                                                                 *)
(* ---------------------------------------------------------------------- *)
Min(a, b) == IF a < b THEN a ELSE b

Rep(c, n) == [q \in 1..n |-> c]

\* dump[ii] of the C code: the terminator at (and, for the model, past) the end
At(ii) == IF ii >= 0 /\ ii < Len(dump) THEN dump[ii + 1] ELSE NUL

\* line[idx] = ch; a store outside line[LINELEN + 1] does not land in the buffer
Put(l, idx, ch) == IF idx \in DOMAIN l THEN [l EXCEPT ![idx] = ch] ELSE l

\* whether a store at idx is outside the array
Outside(idx) == idx \notin 0..LINELEN

\* strlen(line): the index of the first terminator (LINELEN + 1 when the
\* terminator was lost, the least that printing "%s" then prints)
StrLen(l) ==
  IF \E n \in 0..LINELEN : l[n] = NUL
  THEN CHOOSE n \in 0..LINELEN : l[n] = NUL /\ \A m \in 0..(n - 1) : l[m] # NUL
  ELSE LINELEN + 1

\* the text appendStringInfo(&str, "%s\n", line) appends, without the "\n"
CStr(l) == [q \in 1..StrLen(l) |-> l[q - 1]]

(* ---------------------------------------------------------------------- *)
(* Inputs                                                                  *)
(* ---------------------------------------------------------------------- *)
\* format_node_dump inputs: up to MaxSeg segments, each a run of spaces
\* followed by a run of non-space characters (a token, or part of one)
SpaceRuns == {0, 1, 2}
TokLens == {0, 1, (LINELEN \div 2) + 1, LINELEN - 1, LINELEN, LINELEN + 1}
WrapSegs == SpaceRuns \X TokLens

RECURSIVE Expand(_)
Expand(s) ==
  IF s = <<>> THEN <<>>
  ELSE Rep(" ", s[1][1]) \o Rep("a", s[1][2]) \o Expand(Tail(s))

WrapInputs == {Expand(s) : s \in UNION {[1..n -> WrapSegs] : n \in 0..MaxSeg}}

\* pretty_format_node_dump inputs: every string of at most MaxFree characters,
\* a long padding followed by every string of at most MaxTail characters,
\* and the example dump
PChars == {"a", " ", "{", "}", ")", ":"}
Strings(n) == UNION {[1..m -> PChars] : m \in 0..n}
DeepNest == Rep("{", (MAXINDENT \div INDENTSTOP) + 1)
Pads == { Rep("a", LINELEN - 2), Rep("a", LINELEN - 1),
          DeepNest,
          DeepNest \o Rep("a", LINELEN - MAXINDENT - 3),
          DeepNest \o Rep("a", LINELEN - MAXINDENT - 2) }
ScenarioC == <<"{", "A", " ", ":", "B", " ", "1", " ", "{", "C", " ", ":", "D",
               " ", "2", "}", "}">>
PrettyInputs == Strings(MaxFree)
                \cup {p \o t : p \in Pads, t \in Strings(MaxTail)}
                \cup {ScenarioC}

(* ---------------------------------------------------------------------- *)
(* Initial states: elog_node_display picks the formatter                   *)
(* ---------------------------------------------------------------------- *)
Locals == /\ i = 0 /\ j = 0 /\ k = 0
          /\ line = [n \in 0..LINELEN |-> JUNK]
          /\ src = [n \in 0..LINELEN |-> 0]
          /\ str = <<>> /\ origin = <<>>
          /\ indentLev = 0 /\ indentDist = 0
          /\ overrun = FALSE

InitWrap == pretty = FALSE /\ dump \in WrapInputs /\ pc = "fill" /\ Locals

InitPretty == pretty = TRUE /\ dump \in PrettyInputs /\ pc = "indent" /\ Locals

Init == InitWrap \/ InitPretty

(* ---------------------------------------------------------------------- *)
(* format_node_dump                                                        *)
(* ---------------------------------------------------------------------- *)
\* faulty variant: the copy loop runs one column too far
CanFillOff(jj, ii) == jj <= LINELEN /\ At(ii) # NUL

\* the copy loop's condition
CanFill(jj, ii) == jj < LINELEN /\ At(ii) # NUL

\* j when the copy loop started at (jj, ii) ends
RECURSIVE FillCount(_, _)
FillCount(jj, ii) == IF CanFill(jj, ii) THEN FillCount(jj + 1, ii + 1) ELSE jj

\* the backward scan: k when it ends (0 when no space at 1..jj-1)
ScanBack(l, jj) ==
  LET sp == {m \in 1..(jj - 1) : l[m] = " "} IN
  IF sp = {} THEN 0 ELSE CHOOSE m \in sp : \A n \in sp : n <= m

\* faulty variant: the cursor is moved back one character too few
RewindOff(jj, kk) == jj - kk - 2

\* faulty variant: the cursor is moved back to where the line started
RewindAll(jj, kk) == jj

\* how far the cursor is moved back when the line is cut at the space at kk
Rewind(jj, kk) == jj - kk - 1

\* line[jj] = '\0'; appendStringInfo(&str, "%s\n", line)
Terminate(l, jj) == Put(l, jj, NUL)

WrapKeeps == UNCHANGED <<pretty, dump, indentLev, indentDist, src, origin>>

\* for (j = 0; j < LINELEN && dump[i] != '\0'; i++, j++) line[j] = dump[i];
FFill ==
  /\ ~pretty /\ pc = "fill"
  /\ \E n \in {FillCount(0, i)} :
       /\ line' = [m \in 0..LINELEN |-> IF m < n THEN At(i + m) ELSE line[m]]
       /\ overrun' = (overrun \/ (n > 0 /\ Outside(n - 1)))
       /\ i' = i + n
       /\ j' = n
  /\ pc' = "brk"
  /\ UNCHANGED <<k, str>>
  /\ WrapKeeps

\* if (dump[i] == '\0') break;  ...  if (j > 0) { line[j] = '\0'; append }
FEnd ==
  /\ ~pretty /\ pc = "brk" /\ At(i) = NUL
  /\ IF j > 0
     THEN /\ line' = Terminate(line, j)
          /\ str' = Append(str, CStr(line'))
          /\ overrun' = (overrun \/ Outside(j))
     ELSE UNCHANGED <<line, str, overrun>>
  /\ pc' = "done"
  /\ UNCHANGED <<i, j, k>>
  /\ WrapKeeps

\* if (dump[i] == ' ') i++;   then the line is emitted
FBreakAtSpace ==
  /\ ~pretty /\ pc = "brk" /\ At(i) = " "
  /\ i' = i + 1
  /\ line' = Terminate(line, j)
  /\ str' = Append(str, CStr(line'))
  /\ overrun' = (overrun \/ Outside(j))
  /\ pc' = "fill"
  /\ UNCHANGED <<j, k>>
  /\ WrapKeeps

\* else: scan back for a space; k > 0: back up, will reprint all after space
FBackUp ==
  /\ ~pretty /\ pc = "brk" /\ At(i) # NUL /\ At(i) # " "
  /\ k' = ScanBack(line, j)
  /\ k' > 0
  /\ i' = i - Rewind(j, k')
  /\ j' = k'
  /\ line' = Terminate(line, j')
  /\ str' = Append(str, CStr(line'))
  /\ overrun' = (overrun \/ Outside(j'))
  /\ pc' = "fill"
  /\ WrapKeeps

\* else: scan back for a space; none found (k == 0): the full line is emitted
FHardSplit ==
  /\ ~pretty /\ pc = "brk" /\ At(i) # NUL /\ At(i) # " "
  /\ k' = ScanBack(line, j)
  /\ k' = 0
  /\ line' = Terminate(line, j)
  /\ str' = Append(str, CStr(line'))
  /\ overrun' = (overrun \/ Outside(j))
  /\ pc' = "fill"
  /\ UNCHANGED <<i, j>>
  /\ WrapKeeps

NextWrap == FFill \/ FEnd \/ FBreakAtSpace \/ FBackUp \/ FHardSplit

SpecWrap == InitWrap /\ [][NextWrap]_vars

(* ---------------------------------------------------------------------- *)
(* pretty_format_node_dump                                                 *)
(* src[] and origin mirror line[] and str: for every character the         *)
(* 1-based position in dump it was copied from, 0 for indentation.         *)
(* ---------------------------------------------------------------------- *)
\* faulty variant: the inner loop runs one column too far
CanCopyOff(jj, ii) == jj <= LINELEN /\ At(ii) # NUL

\* the inner loop's condition
CanCopy(jj, ii) == jj < LINELEN /\ At(ii) # NUL

\* indentDist = Min(indentLev * INDENTSTOP, MAXINDENT)
IndentOf(lev) == Min(lev * INDENTSTOP, MAXINDENT)

\* faulty variant: the outdent is not guarded
CanOutdentAlways(lev) == TRUE

\* the guard of the outdent
CanOutdent(lev) == lev > 0

\* faulty variant: the data before a marker is never flushed
NeedFlushNever(jj) == FALSE

\* if (j != indentDist): there is data before the marker
NeedFlush(jj) == jj # indentDist

\* faulty variant: the line is broken after every )
BreakAfterParenAlways(ii) == TRUE

\* force line break after ), unless another ) follows
BreakAfterParen(ii) == At(ii + 1) # ")"

\* faulty variant: the spaces after } and ) are not skipped
SkipNothing(ii) == ii

\* while (dump[i + 1] == ' ') i++;   i when the loop ends
RECURSIVE SkipSpaces(_)
SkipSpaces(ii) == IF At(ii + 1) = " " THEN SkipSpaces(ii + 1) ELSE ii

\* faulty variant: j is not reset before the ':' is put
ColonColStay(jj) == jj

\* the column the ':' is put at
ColonCol(jj) == indentDist

\* for (j = 0; j < n; j++) line[j] = ' ';
Spaces(l, n) == [m \in 0..LINELEN |-> IF m < n THEN " " ELSE l[m]]
NoSrc(s, n) == [m \in 0..LINELEN |-> IF m < n THEN 0 ELSE s[m]]

\* the origins of the characters of the emitted text
SrcOf(s, l) == [q \in 1..StrLen(l) |-> s[q - 1]]

PrettyKeeps == UNCHANGED <<pretty, dump, k>>

\* for (j = 0; j < indentDist; j++) line[j] = ' ';
PIndent ==
  /\ pretty /\ pc = "indent"
  /\ line' = Spaces(line, indentDist)
  /\ src' = NoSrc(src, indentDist)
  /\ j' = indentDist
  /\ pc' = "loop"
  /\ UNCHANGED <<i, str, origin, indentLev, indentDist, overrun>>
  /\ PrettyKeeps

\* case '}'
PCloseBrace ==
  /\ pretty /\ pc = "loop" /\ CanCopy(j, i) /\ At(i) = "}"
  /\ \E l0 \in {Put(line, j, "}")}, s0 \in {Put(src, j, i + 1)} :
     \E l1 \in {IF NeedFlush(j) THEN Put(l0, j, NUL) ELSE l0} :
     \E l2 \in {Put(Put(l1, indentDist, "}"), indentDist + 1, NUL)},
        s2 \in {Put(s0, indentDist, i + 1)} :
       /\ str' = (IF NeedFlush(j) THEN Append(str, CStr(l1)) ELSE str)
                   \o <<CStr(l2)>>
       /\ origin' = (IF NeedFlush(j) THEN Append(origin, SrcOf(s0, l1))
                     ELSE origin) \o <<SrcOf(s2, l2)>>
       /\ line' = l2
       /\ src' = s2
  /\ overrun' = (overrun \/ Outside(j) \/ Outside(indentDist + 1))
  /\ indentLev' = IF CanOutdent(indentLev) THEN indentLev - 1 ELSE indentLev
  /\ indentDist' = IF CanOutdent(indentLev) THEN IndentOf(indentLev')
                   ELSE indentDist
  /\ j' = (indentDist' - 1) + 1
  /\ i' = SkipSpaces(i) + 1
  /\ pc' = "loop"
  /\ PrettyKeeps

\* case ')'
PCloseParen ==
  /\ pretty /\ pc = "loop" /\ CanCopy(j, i) /\ At(i) = ")"
  /\ IF BreakAfterParen(i)
     THEN /\ line' = Put(Put(line, j, ")"), j + 1, NUL)
          /\ src' = Put(src, j, i + 1)
          /\ str' = Append(str, CStr(line'))
          /\ origin' = Append(origin, SrcOf(src', line'))
          /\ overrun' = (overrun \/ Outside(j) \/ Outside(j + 1))
          /\ j' = (indentDist - 1) + 1
          /\ i' = SkipSpaces(i) + 1
     ELSE /\ line' = Put(line, j, ")")
          /\ src' = Put(src, j, i + 1)
          /\ overrun' = (overrun \/ Outside(j))
          /\ j' = j + 1
          /\ i' = i + 1
          /\ UNCHANGED <<str, origin>>
  /\ pc' = "loop"
  /\ UNCHANGED <<indentLev, indentDist>>
  /\ PrettyKeeps

\* case '{'
POpenBrace ==
  /\ pretty /\ pc = "loop" /\ CanCopy(j, i) /\ At(i) = "{"
  /\ indentLev' = indentLev + 1
  /\ indentDist' = IndentOf(indentLev')
  /\ \E l0 \in {Put(line, j, "{")}, s0 \in {Put(src, j, i + 1)} :
     \E l1 \in {IF NeedFlush(j) THEN Put(l0, j, NUL) ELSE l0} :
       /\ str' = IF NeedFlush(j) THEN Append(str, CStr(l1)) ELSE str
       /\ origin' = IF NeedFlush(j) THEN Append(origin, SrcOf(s0, l1))
                    ELSE origin
       /\ line' = Put(Spaces(l1, indentDist'), indentDist', At(i))
       /\ src' = Put(NoSrc(s0, indentDist'), indentDist', i + 1)
  /\ overrun' = (overrun \/ Outside(j) \/ Outside(indentDist'))
  /\ j' = indentDist' + 1
  /\ i' = i + 1
  /\ pc' = "loop"
  /\ PrettyKeeps

\* case ':'
PColon ==
  /\ pretty /\ pc = "loop" /\ CanCopy(j, i) /\ At(i) = ":"
  /\ \E l0 \in {Put(line, j, ":")}, s0 \in {Put(src, j, i + 1)} :
     \E l1 \in {IF NeedFlush(j) THEN Put(l0, j, NUL) ELSE l0} :
       /\ str' = IF NeedFlush(j) THEN Append(str, CStr(l1)) ELSE str
       /\ origin' = IF NeedFlush(j) THEN Append(origin, SrcOf(s0, l1))
                    ELSE origin
       /\ line' = Put(l1, ColonCol(j), At(i))
       /\ src' = Put(s0, ColonCol(j), i + 1)
  /\ overrun' = (overrun \/ Outside(j) \/ Outside(ColonCol(j)))
  /\ j' = ColonCol(j) + 1
  /\ i' = i + 1
  /\ pc' = "loop"
  /\ UNCHANGED <<indentLev, indentDist>>
  /\ PrettyKeeps

\* any other character: line[j] = dump[i]
POther ==
  /\ pretty /\ pc = "loop" /\ CanCopy(j, i)
  /\ At(i) \notin {"}", ")", "{", ":"}
  /\ line' = Put(line, j, At(i))
  /\ src' = Put(src, j, i + 1)
  /\ overrun' = (overrun \/ Outside(j))
  /\ j' = j + 1
  /\ i' = i + 1
  /\ pc' = "loop"
  /\ UNCHANGED <<str, origin, indentLev, indentDist>>
  /\ PrettyKeeps

\* the inner loop ends at the width bound: line[j] = '\0'; the line is emitted
PLineFull ==
  /\ pretty /\ pc = "loop" /\ ~CanCopy(j, i) /\ At(i) # NUL
  /\ line' = Put(line, j, NUL)
  /\ str' = Append(str, CStr(line'))
  /\ origin' = Append(origin, SrcOf(src, line'))
  /\ overrun' = (overrun \/ Outside(j))
  /\ pc' = "indent"
  /\ UNCHANGED <<i, j, src, indentLev, indentDist>>
  /\ PrettyKeeps

\* the input ends: line[j] = '\0'; break; if (j > 0) the line is emitted
PEnd ==
  /\ pretty /\ pc = "loop" /\ ~CanCopy(j, i) /\ At(i) = NUL
  /\ line' = Put(line, j, NUL)
  /\ str' = IF j > 0 THEN Append(str, CStr(line')) ELSE str
  /\ origin' = IF j > 0 THEN Append(origin, SrcOf(src, line')) ELSE origin
  /\ overrun' = (overrun \/ Outside(j))
  /\ pc' = "done"
  /\ UNCHANGED <<i, j, src, indentLev, indentDist>>
  /\ PrettyKeeps

NextPretty == PIndent \/ PCloseBrace \/ PCloseParen \/ POpenBrace \/ PColon
              \/ POther \/ PLineFull \/ PEnd

SpecPretty == InitPretty /\ [][NextPretty]_vars

(* ---------------------------------------------------------------------- *)
(* Either formatter, as elog_node_display calls them                       *)
(* ---------------------------------------------------------------------- *)
Next == NextWrap \/ NextPretty

Spec == Init /\ [][Next]_vars

\* a call, once started, runs on: nothing in either function waits
LiveSpec == Init /\ [][Next]_vars /\ WF_vars(Next)

(* ====================================================================== *)
(* Properties                                                              *)
(* ====================================================================== *)
IsSpace(c) == c \in {" ", "\n"}

\* the tokens of a text: its maximal runs of non-whitespace characters,
\* in order
TokStarts(s) ==
  {p \in 1..Len(s) : ~IsSpace(s[p]) /\ (p = 1 \/ IsSpace(s[p - 1]))}
TokEnd(s, p) ==
  CHOOSE q \in p..Len(s) :
    /\ \A r \in p..q : ~IsSpace(s[r])
    /\ (q = Len(s) \/ IsSpace(s[q + 1]))
NthStart(st, t) == CHOOSE p \in st : Cardinality({q \in st : q < p}) = t - 1
Tokens(s) ==
  [t \in 1..Cardinality(TokStarts(s)) |->
     SubSeq(s, NthStart(TokStarts(s), t), TokEnd(s, NthStart(TokStarts(s), t)))]

\* the returned string: every emitted line followed by a line break
RECURSIVE Text(_)
Text(ls) == IF ls = <<>> THEN <<>> ELSE ls[1] \o <<"\n">> \o Text(Tail(ls))

\* a text without its spaces and line breaks
NoSpaces(s) == SelectSeq(s, LAMBDA c : ~IsSpace(c))

\* lines n, n+1, ... of str are dump from offset p on, each line break
\* standing for nothing or for one space of dump
RECURSIVE Rejoins(_, _)
Rejoins(n, p) ==
  IF n > Len(str) THEN p = Len(dump)
  ELSE /\ p + Len(str[n]) <= Len(dump)
       /\ SubSeq(dump, p + 1, p + Len(str[n])) = str[n]
       /\ \/ Rejoins(n + 1, p + Len(str[n]))
          \/ /\ At(p + Len(str[n])) = " "
             /\ Rejoins(n + 1, p + Len(str[n]) + 1)

\* C1: every line format_node_dump emits is at most LINELEN characters long,
\* hard-split lines included; j never exceeds LINELEN when a line is emitted
\* and no store leaves line[].
C1_WidthBound ==
  ~pretty => /\ \A n \in 1..Len(str) : Len(str[n]) <= LINELEN
             /\ j <= LINELEN
             /\ ~overrun

\* a token longer than LINELEN was hard-split into a full first line
C1_Witness ==
  /\ ~pretty /\ pc = "done" /\ Len(str) >= 2
  /\ Len(str[1]) = LINELEN
  /\ \A q \in 1..LINELEN : str[1][q] # " "
  /\ At(LINELEN) # " "

\* C2: when every token of the input is at most LINELEN long, the output of
\* format_node_dump and its input split on whitespace into the same tokens.
C2_TokensPreserved ==
  (/\ ~pretty /\ pc = "done"
   /\ \A t \in 1..Len(Tokens(dump)) : Len(Tokens(dump)[t]) <= LINELEN)
  => Tokens(Text(str)) = Tokens(dump)

\* C3: the input of format_node_dump is its output with every line break
\* replaced by nothing or by one space.
C3_Recoverable == (~pretty /\ pc = "done") => Rejoins(1, 0)

\* the wrapper backed up to a space and finished
C3_Witness == ~pretty /\ pc = "done" /\ k > 0 /\ Len(str) >= 2

\* the indent distance of a nesting level
DistOf(lev) == IF lev * INDENTSTOP < MAXINDENT THEN lev * INDENTSTOP
               ELSE MAXINDENT

\* C4 (state part): indentLev is never negative and indentDist is
\* min(indentLev * 3, 60).
C4_IndentInv == pretty => indentLev >= 0 /\ indentDist = DistOf(indentLev)

\* C4 (step part): a '}' read at level 0 emits its line and leaves
\* indentLev and indentDist at 0.
C4_UnmatchedStep ==
  (pretty /\ pc = "loop" /\ j < LINELEN /\ At(i) = "}" /\ indentLev = 0)
  => (indentLev' = 0 /\ indentDist' = 0 /\ Len(str') > Len(str)
      /\ str'[Len(str')] = <<"}">>)

\* C4: in pretty_format_node_dump indentLev >= 0 and
\* indentDist = min(indentLev * 3, 60) after every step, on any input; an
\* unmatched '}' still emits its line and '{' past 20 levels stays at 60.
C4_Indent == []C4_IndentInv /\ [][C4_UnmatchedStep]_vars

\* more than 20 levels are open and the distance is capped at MAXINDENT
C4_Witness == pretty /\ indentLev > MAXINDENT \div INDENTSTOP
              /\ indentDist = MAXINDENT

\* an emitted ")" that the input follows with another ")" has it as its
\* right neighbour on the same line, when lastToo or when not in the last column
ParensTogether(lastToo) ==
  \A n \in 1..Len(origin) : \A q \in 1..Len(origin[n]) :
    (/\ origin[n][q] > 0
     /\ dump[origin[n][q]] = ")"
     /\ At(origin[n][q]) = ")"
     /\ (lastToo \/ q # LINELEN))
    => (q < Len(origin[n]) /\ origin[n][q + 1] = origin[n][q] + 1)

\* C5 (as claimed): two ')' adjacent in the input are always on the same
\* output line of pretty_format_node_dump, whatever the column of the first.
C5_AdjacentParens == pretty => ParensTogether(TRUE)

\* C5 (amended): two ')' adjacent in the input are on the same output line
\* unless the first one is the 78th character of its line.
C5_AdjacentParensAmended == pretty => ParensTogether(FALSE)

\* two adjacent ')' were emitted side by side in columns 77 and 78
C5_Witness ==
  /\ pretty
  /\ \E n \in 1..Len(origin) :
       /\ Len(str[n]) = LINELEN
       /\ str[n][LINELEN - 1] = ")" /\ str[n][LINELEN] = ")"
       /\ origin[n][LINELEN] = origin[n][LINELEN - 1] + 1

\* a line without its trailing spaces
RECURSIVE RTrim(_)
RTrim(s) == IF s # <<>> /\ s[Len(s)] = " " THEN RTrim(SubSeq(s, 1, Len(s) - 1))
            ELSE s

Trimmed(ls) == [n \in 1..Len(ls) |-> RTrim(ls[n])]

\* C6 (as claimed): the example dump comes out as "   { A", "   :B 1",
\* "      { C", "      :D 2", "      }", "   }".
C6_ScenarioAsClaimed ==
  (pretty /\ dump = ScenarioC /\ pc = "done")
  => Trimmed(str) = << Rep(" ", 3) \o <<"{", " ", "A">>,
                       Rep(" ", 3) \o <<":", "B", " ", "1">>,
                       Rep(" ", 6) \o <<"{", " ", "C">>,
                       Rep(" ", 6) \o <<":", "D", " ", "2">>,
                       Rep(" ", 6) \o <<"}">>,
                       Rep(" ", 3) \o <<"}">> >>

\* C6 (amended): the example dump comes out as exactly six lines, "   {A",
\* "   :B 1", "      {C", "      :D 2", "      }", "   }" (trailing spaces
\* ignored): the text after a '{' follows it directly.
C6_Scenario ==
  (pretty /\ dump = ScenarioC /\ pc = "done")
  => Trimmed(str) = << Rep(" ", 3) \o <<"{", "A">>,
                       Rep(" ", 3) \o <<":", "B", " ", "1">>,
                       Rep(" ", 6) \o <<"{", "C">>,
                       Rep(" ", 6) \o <<":", "D", " ", "2">>,
                       Rep(" ", 6) \o <<"}">>,
                       Rep(" ", 3) \o <<"}">> >>

\* the example dump has been formatted
C6_Witness == pretty /\ dump = ScenarioC /\ pc = "done" /\ Len(str) = 6

\* C7: in pretty_format_node_dump a character is stored only at
\* indentDist <= j < LINELEN, the terminator at j <= LINELEN, no store leaves
\* line[LINELEN + 1], and every emitted line is at most LINELEN long.
C7_LineBounds ==
  pretty =>
    /\ ~overrun
    /\ (pc = "loop" /\ CanCopy(j, i)) => (indentDist <= j /\ j < LINELEN)
    /\ (pc = "loop" /\ ~CanCopy(j, i)) => (0 <= j /\ j <= LINELEN)
    /\ \A n \in 1..Len(str) : Len(str[n]) <= LINELEN

\* a line was flushed after a ')' stored in the last column: j + 1 = LINELEN
\* characters
C7_Witness ==
  /\ pretty /\ pc = "done"
  /\ \E n \in 1..Len(str) : Len(str[n]) = LINELEN /\ str[n][LINELEN] = ")"

\* input position p holds a space of a run that follows a '}' or a ')'
Dropped(p) ==
  /\ dump[p] = " "
  /\ \E q \in 1..(p - 1) :
       dump[q] \in {"}", ")"} /\ \A r \in (q + 1)..p : dump[r] = " "

\* the input positions the output holds, line after line, indentation left out
RECURSIVE Flat(_)
Flat(ls) == IF ls = <<>> THEN <<>> ELSE ls[1] \o Flat(Tail(ls))

Copied == SelectSeq(Flat(origin), LAMBDA p : p > 0)

Kept == SelectSeq([p \in 1..Len(dump) |-> p], LAMBDA p : ~Dropped(p))

\* C8: pretty_format_node_dump copies every input character once and in
\* order, except exactly the spaces of a run that follows a '}' or a ')';
\* so output and input agree once spaces and line breaks are removed.
C8_OnlySpacesDropped ==
  (pretty /\ pc = "done") =>
    /\ Copied = Kept
    /\ \A n \in 1..Len(str) :
         /\ Len(origin[n]) = Len(str[n])
         /\ \A q \in 1..Len(str[n]) :
              str[n][q] = (IF origin[n][q] > 0 THEN dump[origin[n][q]] ELSE " ")
    /\ NoSpaces(Text(str)) = NoSpaces(dump)

\* a run ended in which a space after '}' or ')' was dropped and a space
\* after '{' or ':' was kept
C8_Witness ==
  /\ pretty /\ pc = "done"
  /\ \E p \in 1..Len(dump) : Dropped(p)
  /\ \E p \in 2..Len(dump) : dump[p] = " " /\ dump[p - 1] \in {"{", ":"}

\* the nesting level when input position p is read
Dec(l) == IF l > 0 THEN l - 1 ELSE 0
RECURSIVE LevAt(_)
LevAt(p) ==
  IF p <= 1 THEN 0
  ELSE IF dump[p - 1] = "{" THEN LevAt(p - 1) + 1
  ELSE IF dump[p - 1] = "}" THEN Dec(LevAt(p - 1))
  ELSE LevAt(p - 1)

\* the column a marker read at input position p belongs at
MarkerCol(p) == IF dump[p] = "{" THEN DistOf(LevAt(p) + 1) ELSE DistOf(LevAt(p))

\* C9: every '{', '}' and ':' of the input is the first non-space character
\* of its output line, preceded by exactly indentDist spaces of indentation
\* (for '{' after the increment, for '}' before the decrement, and the '}'
\* line holds nothing else), and none is lost.
C9_MarkersFirst ==
  pretty =>
    /\ \A n \in 1..Len(origin) : \A q \in 1..Len(origin[n]) :
         (origin[n][q] > 0 /\ dump[origin[n][q]] \in {"{", "}", ":"})
         => /\ \A r \in 1..(q - 1) : origin[n][r] = 0 /\ str[n][r] = " "
            /\ q - 1 = MarkerCol(origin[n][q])
            /\ dump[origin[n][q]] = "}" => Len(str[n]) = q
    /\ pc = "done" =>
         \E f \in {Flat(origin)} :
           \A p \in 1..Len(dump) :
             dump[p] \in {"{", "}", ":"}
             => Cardinality({x \in 1..Len(f) : f[x] = p}) = 1

\* a ':' was emitted on a line of its own start after buffered content had
\* been flushed, below an open '{'
C9_Witness ==
  /\ pretty /\ pc = "done" /\ Len(str) >= 2
  /\ \E n \in 2..Len(origin) :
       /\ Len(origin[n]) > INDENTSTOP
       /\ origin[n][INDENTSTOP + 1] > 0
       /\ dump[origin[n][INDENTSTOP + 1]] = ":"
       /\ origin[n - 1][Len(origin[n - 1])] = origin[n][INDENTSTOP + 1] - 1

\* a pass of format_node_dump's outer loop leaves i beyond the line's start
C10_WrapProgress == (~pretty /\ pc = "brk" /\ pc' = "fill") => i' > i - j

\* a pass of pretty_format_node_dump's outer loop that starts with input
\* left copies a character, and every turn of the inner loop moves i on
C10_PrettyProgress ==
  /\ (pretty /\ pc = "indent" /\ At(i) # NUL) => (pc' = "loop" /\ CanCopy(j', i'))
  /\ (pretty /\ pc = "indent" /\ At(i) = NUL) => i = 0
  /\ (pretty /\ pc = "loop" /\ pc' = "loop") => i' > i

\* C10: both formatters terminate on every input: every pass of either
\* outer loop moves the cursor beyond where the pass started, and the end of
\* the input is reached.
C10_Terminates ==
  /\ [][C10_WrapProgress]_vars
  /\ [][C10_PrettyProgress]_vars
  /\ <>(pc = "done")

\* format_node_dump finished after backing up, or pretty_format_node_dump
\* after a width-bound flush
C10_Witness ==
  /\ pc = "done" /\ Len(str) >= 2
  /\ IF pretty THEN Len(str[1]) = LINELEN ELSE k > 0

====
